---------------------------- MODULE Spec2Model ----------------------------
(***************************************************************************)
(* A model of two components of sktime:                                    *)
(*                                                                         *)
(*   - TimeSeriesForestRegressor.predict                                   *)
(*       (src/sktime/regression/interval_based/_tsf.py)                    *)
(*   - BoxCoxTransformer and the functions _make_boxcox_optimizer,         *)
(*     _boxcox_normmax, _guerrero and _boxcox                              *)
(*       (src/sktime/transformations/series/boxcox.py)                     *)
(*                                                                         *)
(* Three specifications share the module:                                  *)
(*   SpecForest       the forest's fit / predict life cycle, the member    *)
(*                    tasks of one predict call completing in any order    *)
(*   SpecTransformer  the life cycle of one BoxCoxTransformer instance     *)
(*   SpecEstimate     the module-level functions called on bounded inputs  *)
(*                                                                         *)
(* Errors carry the names of the specification's taxonomy.  The Python     *)
(* exceptions they stand for are noted where they are raised.              *)
(***************************************************************************)
EXTENDS Integers, Sequences, FiniteSets, TLC

VARIABLES
    \* ---- TimeSeriesForestRegressor
    is_fitted,      \* self._is_fitted (read by check_is_fitted)
    series_length,  \* self.series_length, recorded at training
    n_estimators,   \* self.n_estimators
    estimators_,    \* self.estimators_ : 0..n_estimators-1 -> tree
    intervals_,     \* self.intervals_  : 0..n_estimators-1 -> interval set
    pc,             \* position of the predict call
    X,              \* the batch of the predict call in progress
    y_pred,         \* the results collected by Parallel, by member index
    failed,         \* members whose task raised
    out,            \* what the last predict call gave its caller
    \* ---- BoxCoxTransformer
    bounds,         \* self.bounds
    method,         \* self.method
    sp,             \* self.sp
    lambda_,        \* self.lambda_ : <<>> is None, <<v>> a scalar, <<p, m>> "all"
    t_fitted,       \* self._is_fitted of the transformer
    last,           \* the last operation on the transformer and its outcome
    \* ---- module-level functions
    call            \* the last function call and its outcome

forestVars == <<is_fitted, series_length, n_estimators, estimators_, intervals_,
                pc, X, y_pred, failed, out>>
transVars  == <<bounds, method, sp, lambda_, t_fitted, last>>
vars       == <<forestVars, transVars, call>>

-----------------------------------------------------------------------------
(* Bounds of the model *)

MaxEstimators == 3      \* members of a forest
MaxInstances  == 2      \* instances of a batch
MaxSeriesLen  == 2      \* time points of a series of the forest
MaxLen        == 3      \* elements of a Box-Cox input sequence
MaxGLen       == 6      \* elements of a sequence given to _guerrero

NoError == "none"

RECURSIVE SumTo(_, _)
\* f[0] + ... + f[n-1]
SumTo(f, n) == IF n = 0 THEN 0 ELSE f[n - 1] + SumTo(f, n - 1)

-----------------------------------------------------------------------------
(***************************************************************************)
(*                     TimeSeriesForestRegressor                           *)
(***************************************************************************)

\* The instances of a batch are of two kinds; a tree is its prediction table
\* over them.  The population holds the three constant trees 1, 2, 3 and one
\* tree that tells the kinds apart.
InstKinds == {0, 1}
TreeModels == { [k \in InstKinds |-> 1], [k \in InstKinds |-> 2],
                [k \in InstKinds |-> 3], [k \in InstKinds |-> IF k = 0 THEN 1 ELSE 3] }

Members == 0 .. (n_estimators - 1)

Batches == { [len |-> l, inst |-> s] :
               l \in 1 .. MaxSeriesLen,
               s \in UNION { [1 .. m -> InstKinds] : m \in 1 .. MaxInstances } }

NoBatch == [len |-> 0, inst |-> <<>>]
NoPred  == [est |-> -1, ivl |-> -1, val |-> <<>>]
NoOut   == [err |-> NoError, val |-> <<>>]

\* check_is_fitted of the base class
check_is_fitted(fitted) == IF fitted THEN NoError ELSE "NotFittedError"

\* _transform(X, intervals) of the base forest module: the feature matrix, one row per instance, made
\* from the raw batch and one interval set
tsf_transform(batch, intervals) == [rows |-> batch.inst, ivl |-> intervals]

\* estimator.predict(Xt): one prediction per row
TreePredict(tree, Xt) == [k \in 1 .. Len(Xt.rows) |-> tree[Xt.rows[k]]]

\* _predict(X, self.estimators_[i], self.intervals_[i]) for member i
_predict(batch, i) ==
    [est |-> i, ivl |-> intervals_[i],
     val |-> TreePredict(estimators_[i], tsf_transform(batch, intervals_[i]))]

\* A mutant of np_mean: the last member is left out of the mean
np_mean_drop_last(ys, n) ==
    [k \in 1 .. Len(ys[0].val) |->
        [num |-> SumTo([i \in 0 .. (n - 2) |-> ys[i].val[k]], n - 1), den |-> n - 1]]

\* np.mean(y_pred, axis=0): per instance, the sum over the members by n
np_mean(ys, n) ==
    [k \in 1 .. Len(ys[0].val) |->
        [num |-> SumTo([i \in 0 .. (n - 1) |-> ys[i].val[k]], n), den |-> n]]

\* A mutant of PredictChecks: the series length is not compared
PredictChecksNoLength(batch) == check_is_fitted(is_fitted)

\* predict, lines 85-94: the checks made before any member task is started
PredictChecks(batch) ==
    IF check_is_fitted(is_fitted) # NoError THEN check_is_fitted(is_fitted)
    ELSE IF batch.len # series_length THEN "ShapeError"    \* TypeError, line 91
    ELSE NoError

\* fit of the base forest: the population is trained, series_length recorded
ForestFit ==
    /\ pc = "idle"
    /\ ~is_fitted
    /\ \E n \in 1 .. MaxEstimators, l \in 1 .. MaxSeriesLen :
         \E trees \in [0 .. (n - 1) -> TreeModels] :
            /\ n_estimators' = n
            /\ series_length' = l
            /\ estimators_' = trees
            /\ intervals_' = [i \in 0 .. (n - 1) |-> i]
    /\ is_fitted' = TRUE
    /\ UNCHANGED <<pc, X, y_pred, failed, out>>
    /\ UNCHANGED <<transVars, call>>

\* predict, lines 85-94, ending in an error
PredictRejected ==
    /\ pc = "idle"
    /\ \E batch \in Batches :
         /\ PredictChecks(batch) # NoError
         /\ X' = batch
         /\ out' = [err |-> PredictChecks(batch), val |-> <<>>]
    /\ pc' = "raised"
    /\ y_pred' = <<>>
    /\ failed' = {}
    /\ UNCHANGED <<is_fitted, series_length, n_estimators, estimators_, intervals_>>
    /\ UNCHANGED <<transVars, call>>

\* predict, lines 85-98: the checks pass and Parallel is given one task per member
PredictStart ==
    /\ pc = "idle"
    /\ \E batch \in Batches :
         /\ PredictChecks(batch) = NoError
         /\ X' = batch
    /\ pc' = "running"
    /\ y_pred' = [i \in Members |-> NoPred]
    /\ failed' = {}
    /\ out' = NoOut
    /\ UNCHANGED <<is_fitted, series_length, n_estimators, estimators_, intervals_>>
    /\ UNCHANGED <<transVars, call>>

Pending(i) == y_pred[i] = NoPred /\ i \notin failed

\* one member task runs to its end
TaskDone(i) ==
    /\ pc = "running"
    /\ Pending(i)
    /\ y_pred' = [y_pred EXCEPT ![i] = _predict(X, i)]
    /\ UNCHANGED <<is_fitted, series_length, n_estimators, estimators_, intervals_,
                   pc, X, failed, out>>
    /\ UNCHANGED <<transVars, call>>

\* one member task raises
TaskFail(i) ==
    /\ pc = "running"
    /\ Pending(i)
    /\ failed' = failed \cup {i}
    /\ UNCHANGED <<is_fitted, series_length, n_estimators, estimators_, intervals_,
                   pc, X, y_pred, out>>
    /\ UNCHANGED <<transVars, call>>

\* Parallel re-raises the error of a failed task; line 99 is not reached
PredictAbort ==
    /\ pc = "running"
    /\ failed # {}
    /\ pc' = "raised"
    /\ out' = [err |-> "TaskError", val |-> <<>>]
    /\ UNCHANGED <<is_fitted, series_length, n_estimators, estimators_, intervals_,
                   X, y_pred, failed>>
    /\ UNCHANGED <<transVars, call>>

\* Parallel returns the list of all results once every task has ended well
AllCollected == \A i \in Members : y_pred[i] # NoPred

\* predict, line 99
PredictReturn ==
    /\ pc = "running"
    /\ failed = {}
    /\ AllCollected
    /\ pc' = "returned"
    /\ out' = [err |-> NoError, val |-> np_mean(y_pred, n_estimators)]
    /\ UNCHANGED <<is_fitted, series_length, n_estimators, estimators_, intervals_,
                   X, y_pred, failed>>
    /\ UNCHANGED <<transVars, call>>

\* the call is over: its caller has the result or the error, its locals are gone
PredictEnd ==
    /\ pc \in {"returned", "raised"}
    /\ pc' = "idle"
    /\ X' = NoBatch
    /\ y_pred' = <<>>
    /\ failed' = {}
    /\ out' = NoOut
    /\ UNCHANGED <<is_fitted, series_length, n_estimators, estimators_, intervals_>>
    /\ UNCHANGED <<transVars, call>>

ForestNext ==
    \/ ForestFit
    \/ PredictRejected
    \/ PredictStart
    \/ \E i \in Members : TaskDone(i)
    \/ \E i \in Members : TaskFail(i)
    \/ PredictAbort
    \/ PredictReturn
    \/ PredictEnd

-----------------------------------------------------------------------------
(***************************************************************************)
(*                 Box-Cox: the module-level functions                     *)
(***************************************************************************)

\* brack=(-2.0, 2.0), the default of _make_boxcox_optimizer and _boxcox_normmax
BrackLo == -2
BrackHi == 2
Brack == <<BrackLo, BrackHi>>

MaxSp == 3              \* largest seasonal periodicity tried

\* An array is its number of dimensions and its elements in order.
DataVals == {-2, 0, 1, 3}
Seqs(n) == UNION { [1 .. m -> DataVals] : m \in 0 .. n }
Arr(v) == [ndim |-> 1, v |-> v]
\* a sequence of n different positive values
Ramp(n) == [i \in 1 .. n |-> 2 * i + 1]

None == [kind |-> "None", v |-> <<>>]
Tuple(v) == [kind |-> "tuple", v |-> v]
\* the bounds tried: absent, pairs (one with low > high), tuples of another
\* length, and a pair that is a list and no tuple
BoundsVals == { None, Tuple(<<-1, 1>>), Tuple(<<0, 3>>), Tuple(<<2, -2>>),
                Tuple(<<1, 2, 3>>), Tuple(<<1>>), [kind |-> "list", v |-> <<-1, 1>>] }
\* the seasonal periodicities tried: None, integers from 0, and the float 2.0
NoSp == [kind |-> "None", v |-> 0]
SpVals == { NoSp } \cup { [kind |-> "int", v |-> n] : n \in 0 .. MaxSp }
                   \cup { [kind |-> "float", v |-> 2] }
MethodVals == { "pearsonr", "mle", "all", "guerrero", "bogus" }
\* what the unconstrained minimizer may settle on
LambdaVals == { -1, 0, 3 }

NoMin == <<>>
NoAux == [len_prefix |-> -1, x_trimmed |-> <<>>, x_mat |-> <<>>]
\* What a call gives: the error raised and the function raising it, or the
\* lambda and the series returned; mins are the minimizations it started, aux
\* the rows _guerrero built, ci whether a confidence interval comes with it.
Result(err, by, lam, y, mins, aux) ==
    [err |-> err, by |-> by, lam |-> lam, y |-> y, mins |-> mins, aux |-> aux,
     ci |-> FALSE]
Raise(err, by) == Result(err, by, <<>>, <<>>, NoMin, NoAux)

AllEqual(v) == \A i \in 1 .. Len(v) : v[i] = v[1]
AnyNonPositive(v) == \E i \in 1 .. Len(v) : v[i] <= 0

\* scipy.special.boxcox(x, lmbda), elementwise; no check of x
special_boxcox(v, lmbda) ==
    [i \in 1 .. Len(v) |-> [f |-> "boxcox", x |-> v[i], lmbda |-> lmbda]]

\* _boxcox(x, lmbda) with lmbda given, lines 414-428.  The four ValueErrors
\* are told apart by their messages.
_boxcox_lmbda(x, lmbda) ==
    IF x.ndim # 1 THEN Raise("ShapeError", "_boxcox")               \* line 416
    ELSE IF Len(x.v) = 0 THEN Result(NoError, "", <<>>, x.v, NoMin, NoAux)
    ELSE IF AllEqual(x.v) THEN Raise("DegenerateInputError", "_boxcox")  \* 422
    ELSE IF AnyNonPositive(x.v) THEN Raise("DomainError", "_boxcox")     \* 425
    ELSE Result(NoError, "", <<>>, special_boxcox(x.v, lmbda), NoMin, NoAux)

NoOpt == [err |-> NoError, kind |-> "none", a |-> 0, b |-> 0]

\* A mutant of _make_boxcox_optimizer: the bounded minimizer is given the
\* bracket in place of the bounds
_make_boxcox_optimizer_brack(bnds, brack) ==
    IF bnds = None
    THEN [err |-> NoError, kind |-> "brent", a |-> brack[1], b |-> brack[2]]
    ELSE IF bnds.kind # "tuple" \/ Len(bnds.v) # 2
    THEN [err |-> "InvalidParameter", kind |-> "none", a |-> 0, b |-> 0]
    ELSE [err |-> NoError, kind |-> "fminbound", a |-> brack[1], b |-> brack[2]]

\* _make_boxcox_optimizer(bounds, brack), lines 248-266
_make_boxcox_optimizer(bnds, brack) ==
    IF bnds = None
    THEN [err |-> NoError, kind |-> "brent", a |-> brack[1], b |-> brack[2]]
    ELSE IF bnds.kind # "tuple" \/ Len(bnds.v) # 2
    THEN [err |-> "InvalidParameter", kind |-> "none", a |-> 0, b |-> 0]   \* 259
    ELSE [err |-> NoError, kind |-> "fminbound", a |-> bnds.v[1], b |-> bnds.v[2]]

\* What optimizer(func, args) can do.  scipy.optimize.fminbound raises before
\* it evaluates func when the lower bound exceeds the upper one and returns a
\* point of the interval otherwise; scipy.optimize.brent evaluates func at
\* once and may end with a point or with its own failure.  An error raised by
\* func itself (evalErr, said to come from evalBy) comes at the first evaluation.
Minimize(optimizer, obj, evalErr, evalBy) ==
    LET m(e) == << [obj |-> obj, opt |-> optimizer, evaluated |-> e] >>
    IN  IF optimizer.kind = "fminbound" /\ optimizer.a > optimizer.b
        THEN { Result("MinimizerError", "fminbound", <<>>, <<>>, m(FALSE), NoAux) }
        ELSE IF evalErr # NoError
        THEN { Result(evalErr, evalBy, <<>>, <<>>, m(TRUE), NoAux) }
        ELSE IF optimizer.kind = "fminbound"
        THEN { Result(NoError, "", <<v>>, <<>>, m(TRUE), NoAux) :
                  v \in optimizer.a .. optimizer.b }
        ELSE { Result(NoError, "", <<v>>, <<>>, m(TRUE), NoAux) : v \in LambdaVals }
             \cup { Result("MinimizerError", "brent", <<>>, <<>>, m(TRUE), NoAux) }

\* _pearsonr(x), lines 273-283: _eval_pearsonr calls _boxcox(samps, lmbda)
\* each time it is evaluated
_pearsonr(x, optimizer) ==
    LET first == _boxcox_lmbda(x, optimizer.a)
    IN  Minimize(optimizer, "pearsonr", first.err, first.by)

\* _mle(x), lines 285-290: _eval_mle is -scipy.stats.boxcox_llf(lmb, data),
\* which calls no _boxcox and raises nothing on the data
_mle(x, optimizer) == Minimize(optimizer, "mle", NoError, "")

\* _all(x), lines 292-296: _pearsonr, then _mle
_all(x, optimizer) ==
    UNION { IF p.err # NoError THEN { p }
            ELSE { IF m.err # NoError
                   THEN [m EXCEPT !.mins = p.mins \o m.mins]
                   ELSE Result(NoError, "", p.lam \o m.lam, <<>>,
                               p.mins \o m.mins, NoAux) :
                   m \in _mle(x, optimizer) } :
            p \in _pearsonr(x, optimizer) }

\* _boxcox_normmax(x, bounds, brack, method), lines 270-303
_boxcox_normmax(x, bnds, brack, meth) ==
    LET optimizer == _make_boxcox_optimizer(bnds, brack)
    IN  IF optimizer.err # NoError
        THEN { Raise(optimizer.err, "_make_boxcox_optimizer") }        \* line 271
        ELSE IF meth \notin {"pearsonr", "mle", "all"}
        THEN { Raise("InvalidParameter", "_boxcox_normmax") }           \* line 300
        ELSE IF meth = "pearsonr" THEN _pearsonr(x, optimizer)
        ELSE IF meth = "mle" THEN _mle(x, optimizer)
        ELSE _all(x, optimizer)

\* is_int of sktime.utils.validation
is_int(s) == s.kind = "int"

\* A mutant of GuerreroBlocks: the suffix is trimmed, not the prefix
GuerreroBlocksSuffix(v, period) ==
    LET num_obs == Len(v)
        len_prefix == num_obs % period
        x_trimmed == SubSeq(v, 1, num_obs - len_prefix)
    IN  [len_prefix |-> len_prefix, x_trimmed |-> x_trimmed,
         x_mat |-> [j \in 1 .. (Len(x_trimmed) \div period) |->
                      SubSeq(x_trimmed, (j - 1) * period + 1, j * period)]]

\* _guerrero, lines 339-343: the prefix is trimmed and the rest reshaped into
\* rows of sp elements
GuerreroBlocks(v, period) ==
    LET num_obs == Len(v)
        len_prefix == num_obs % period
        x_trimmed == SubSeq(v, len_prefix + 1, num_obs)
    IN  [len_prefix |-> len_prefix, x_trimmed |-> x_trimmed,
         x_mat |-> [j \in 1 .. (Len(x_trimmed) \div period) |->
                      SubSeq(x_trimmed, (j - 1) * period + 1, j * period)]]

\* A mutant of _guerrero: the bounds are examined before the periodicity
_guerrero_bounds_first(x, s, bnds) ==
    LET optimizer == _make_boxcox_optimizer(bnds, Brack)
    IN  IF optimizer.err # NoError
        THEN { Raise(optimizer.err, "_make_boxcox_optimizer") }
        ELSE IF s = NoSp \/ ~is_int(s) \/ s.v < 2
        THEN { Raise("InvalidParameter", "_guerrero") }
        ELSE IF x.ndim # 1 THEN { Raise("ShapeError", "_guerrero") }
        ELSE { [r EXCEPT !.aux = GuerreroBlocks(x.v, s.v)] :
                  r \in Minimize(optimizer, "guerrero", NoError, "") }

\* _guerrero(x, sp, bounds), lines 306-356.  _eval_guerrero works on the means
\* and standard deviations of the rows and raises nothing.
_guerrero(x, s, bnds) ==
    IF s = NoSp \/ ~is_int(s) \/ s.v < 2
    THEN { Raise("InvalidParameter", "_guerrero") }                     \* line 331
    ELSE IF x.ndim # 1 THEN { Raise("ShapeError", "_guerrero") }        \* line 337
    ELSE LET blocks == GuerreroBlocks(x.v, s.v)
             optimizer == _make_boxcox_optimizer(bnds, Brack)
         IN  IF optimizer.err # NoError
             THEN { [Raise(optimizer.err, "_make_boxcox_optimizer")
                       EXCEPT !.aux = blocks] }                          \* line 355
             ELSE { [r EXCEPT !.aux = blocks] :
                       r \in Minimize(optimizer, "guerrero", NoError, "") }

\* _boxcox(x, lmbda, bounds, alpha), lines 359-439; lmbda and alpha are <<>>
\* for None.  The checks of lines 414-425 come first; with lmbda None the
\* lambda of "mle" is then found and x transformed with it.
_boxcox(x, lmbda, bnds, alpha) ==
    IF lmbda # <<>> THEN { _boxcox_lmbda(x, lmbda[1]) }
    ELSE LET checked == _boxcox_lmbda(x, 0)
         IN  IF checked.err # NoError \/ Len(x.v) = 0 THEN { checked }
             ELSE { IF r.err # NoError THEN r
                    ELSE [r EXCEPT !.y = _boxcox_lmbda(x, r.lam[1]).y,
                                   !.ci = (alpha # <<>>)] :
                    r \in _boxcox_normmax(x, bnds, Brack, "mle") }

\* the dispatch of BoxCoxTransformer._fit, lines 129-132
EstimateLambda(x, meth, bnds, s) ==
    IF meth # "guerrero" THEN _boxcox_normmax(x, bnds, Brack, meth)
    ELSE _guerrero(x, s, bnds)

-----------------------------------------------------------------------------
(***************************************************************************)
(*                         BoxCoxTransformer                               *)
(***************************************************************************)

MaxTLen == 2            \* elements of a series given to the transformer

\* the parameters instances are made with
TBoundsVals == { None, Tuple(<<-1, 1>>), Tuple(<<1, 2, 3>>) }
TSpVals == { NoSp, [kind |-> "int", v |-> 1], [kind |-> "int", v |-> 2] }
TDataVals == { 0, 1, 3 }

\* The series check_series lets through: one-dimensional and not empty
TSeries == { Arr(v) : v \in UNION { [1 .. m -> TDataVals] : m \in 1 .. MaxTLen } }

NoLast == [op |-> "__init__", x |-> Arr(<<>>), res |-> Raise(NoError, "")]

\* BoxCoxTransformer._fit, lines 128-132: what the estimate called can give
BoxCoxTransformer_fit(Z) == EstimateLambda(Z, method, bounds, sp)

\* A mutant of fit_lambda: lambda_ is cleared when the estimate raises
fit_lambda_cleared(res) == IF res.err = NoError THEN res.lam ELSE <<>>

\* A mutant of fit_lambda: a lambda_ once set is kept
fit_lambda_first(res) ==
    IF res.err = NoError /\ lambda_ = <<>> THEN res.lam ELSE lambda_

\* self.lambda_ after _fit, lines 130 and 132: assigned when the call returns
fit_lambda(res) == IF res.err = NoError THEN res.lam ELSE lambda_

\* scipy's elementwise functions on a series and self.lambda_, which is
\* broadcast against the series when method "all" made it a 2-vector
Elementwise(f, v, lam) ==
    IF lam = <<>> THEN Raise("TypeError", "scipy.special")
    ELSE IF Len(lam) = 1
    THEN Result(NoError, "", <<>>,
                [i \in 1 .. Len(v) |-> [f |-> f, x |-> v[i], lmbda |-> lam[1]]],
                NoMin, NoAux)
    ELSE IF Len(v) = Len(lam)
    THEN Result(NoError, "", <<>>,
                [i \in 1 .. Len(v) |-> [f |-> f, x |-> v[i], lmbda |-> lam[i]]],
                NoMin, NoAux)
    ELSE Raise("BroadcastError", "scipy.special")

\* BoxCoxTransformer._transform, lines 151-153: scipy.special.boxcox
BoxCoxTransformer_transform(Z) == Elementwise("boxcox", Z.v, lambda_)

\* A mutant of inverse_transform: check_is_fitted is not called
inverse_transform_unchecked(Z) == Elementwise("inv_boxcox", Z.v, lambda_)

\* BoxCoxTransformer.inverse_transform, lines 170-173
inverse_transform(Z) ==
    IF check_is_fitted(t_fitted) # NoError
    THEN Raise(check_is_fitted(t_fitted), "check_is_fitted")
    ELSE Elementwise("inv_boxcox", Z.v, lambda_)

\* self._is_fitted after fit of the base class: set once _fit has returned
fit_is_fitted(res) == t_fitted \/ res.err = NoError

\* fit: _fit, and the instance is fitted once _fit has returned.  A minimizer
\* is a function of its arguments: the fit just made, made again on the same
\* series, ends the same way.
Fit ==
    /\ \E Z \in TSeries : \E res \in BoxCoxTransformer_fit(Z) :
         /\ (last.op = "fit" /\ last.x = Z) => res = last.res
         /\ lambda_' = fit_lambda(res)
         /\ t_fitted' = fit_is_fitted(res)
         /\ last' = [op |-> "fit", x |-> Z, res |-> res]
    /\ UNCHANGED <<bounds, method, sp>>
    /\ UNCHANGED <<forestVars, call>>

\* transform: _transform; whether the base class asks check_is_fitted first is
\* not in the source, so both are allowed on an instance not yet fitted
Transform ==
    /\ \E Z \in TSeries :
         \E res \in { BoxCoxTransformer_transform(Z) } \cup
                    (IF t_fitted THEN {}
                     ELSE { Raise("NotFittedError", "check_is_fitted") }) :
            last' = [op |-> "transform", x |-> Z, res |-> res]
    /\ UNCHANGED <<bounds, method, sp, lambda_, t_fitted>>
    /\ UNCHANGED <<forestVars, call>>

InverseTransform ==
    /\ \E Z \in TSeries :
         last' = [op |-> "inverse_transform", x |-> Z, res |-> inverse_transform(Z)]
    /\ UNCHANGED <<bounds, method, sp, lambda_, t_fitted>>
    /\ UNCHANGED <<forestVars, call>>

TransformerNext == Fit \/ Transform \/ InverseTransform

-----------------------------------------------------------------------------
(***************************************************************************)
(*              The module-level functions, called directly                *)
(***************************************************************************)

\* Arrays of two dimensions, by their elements
Arr2(v) == [ndim |-> 2, v |-> v]
Arrays2 == { Arr2(<<>>), Arr2(<<1, 1>>), Arr2(<<1, 3>>), Arr2(<<-2, 3>>) }

BoxInputs == { Arr(v) : v \in Seqs(MaxLen) } \cup Arrays2
\* method other than "guerrero": one-dimensional and not empty
NormmaxInputs == { Arr(v) : v \in Seqs(MaxLen) \ { <<>> } }
GuerreroInputs == NormmaxInputs \cup Arrays2 \cup { Arr(Ramp(n)) : n \in 0 .. MaxGLen }

NoCall == [fn |-> "none", done |-> FALSE, x |-> Arr(<<>>), lmbda |-> <<>>,
           alpha |-> <<>>, bounds |-> None, method |-> "", sp |-> NoSp,
           res |-> Raise(NoError, "")]

\* the calls of _boxcox made: lmbda None or given, alpha None or given
BoxcoxCallsOf(inputs) ==
    { [NoCall EXCEPT !.fn = "_boxcox", !.x = x, !.lmbda = l, !.alpha = a,
                     !.bounds = b] :
        x \in inputs, l \in { <<>> } \cup { <<v>> : v \in LambdaVals },
        b \in BoundsVals, a \in { <<>>, <<1>> } }

\* the estimates asked for, as BoxCoxTransformer._fit asks for them
EstimateCallsOf(inputs, methods) ==
    { [NoCall EXCEPT !.fn = "EstimateLambda", !.x = x, !.bounds = b,
                     !.method = m, !.sp = s] :
        x \in inputs, m \in methods, b \in BoundsVals, s \in SpVals }

\* the forward transforms asked of a transformer whose lambda_ a fit has set
TransformCallsOf(inputs) ==
    { [NoCall EXCEPT !.fn = "BoxCoxTransformer._transform", !.x = x, !.lmbda = l] :
        x \in inputs,
        l \in { <<v>> : v \in LambdaVals } \cup { <<v, w>> : v, w \in LambdaVals } }

CallBoxcox ==
    /\ call.fn = "_boxcox" /\ ~call.done
    /\ \E res \in _boxcox(call.x, call.lmbda, call.bounds, call.alpha) :
          call' = [call EXCEPT !.res = res, !.done = TRUE]
    /\ UNCHANGED <<forestVars, transVars>>

CallEstimateLambda ==
    /\ call.fn = "EstimateLambda" /\ ~call.done
    /\ \E res \in EstimateLambda(call.x, call.method, call.bounds, call.sp) :
          call' = [call EXCEPT !.res = res, !.done = TRUE]
    /\ UNCHANGED <<forestVars, transVars>>

CallTransform ==
    /\ call.fn = "BoxCoxTransformer._transform" /\ ~call.done
    /\ call' = [call EXCEPT !.res = BoxCoxTransformer_transform(call.x), !.done = TRUE]
    /\ UNCHANGED <<forestVars, transVars>>

-----------------------------------------------------------------------------
(* The specifications *)

\* the forest before fit; the transformer and the functions stay as made
ForestInit ==
    /\ is_fitted = FALSE /\ series_length = 0 /\ n_estimators = 0
    /\ estimators_ = <<>> /\ intervals_ = <<>>
    /\ pc = "idle" /\ X = NoBatch /\ y_pred = <<>> /\ failed = {} /\ out = NoOut
    /\ bounds = None /\ method = "mle" /\ sp = NoSp
    /\ lambda_ = <<>> /\ t_fitted = FALSE /\ last = NoLast
    /\ call = NoCall

\* BoxCoxTransformer.__init__, lines 107-112, with any parameters
TransformerInit ==
    /\ bounds \in TBoundsVals /\ method \in MethodVals /\ sp \in TSpVals
    /\ lambda_ = <<>> /\ t_fitted = FALSE /\ last = NoLast
    /\ is_fitted = FALSE /\ series_length = 0 /\ n_estimators = 0
    /\ estimators_ = <<>> /\ intervals_ = <<>>
    /\ pc = "idle" /\ X = NoBatch /\ y_pred = <<>> /\ failed = {} /\ out = NoOut
    /\ call = NoCall

\* a function about to be called on one of the inputs, or a fitted
\* transformer about to transform a series
EstimateInit ==
    /\ \/ /\ \/ call \in BoxcoxCallsOf(BoxInputs)
             \/ call \in EstimateCallsOf(NormmaxInputs, MethodVals \ {"guerrero"})
             \/ call \in EstimateCallsOf(GuerreroInputs, {"guerrero"})
          /\ lambda_ = <<>> /\ t_fitted = FALSE
       \/ /\ call \in TransformCallsOf(NormmaxInputs)
          /\ lambda_ = call.lmbda /\ t_fitted = TRUE
    /\ bounds = None /\ method = "mle" /\ sp = NoSp /\ last = NoLast
    /\ is_fitted = FALSE /\ series_length = 0 /\ n_estimators = 0
    /\ estimators_ = <<>> /\ intervals_ = <<>>
    /\ pc = "idle" /\ X = NoBatch /\ y_pred = <<>> /\ failed = {} /\ out = NoOut

EstimateNext == CallBoxcox \/ CallEstimateLambda \/ CallTransform

SpecForest == ForestInit /\ [][ForestNext]_vars

SpecTransformer == TransformerInit /\ [][TransformerNext]_vars

SpecEstimate == EstimateInit /\ [][EstimateNext]_vars

-----------------------------------------------------------------------------
(***************************************************************************)
(*                      TimeSeriesForestRegressor: properties              *)
(***************************************************************************)

\* C1: predict returns only once every member 0..n_estimators-1 has given its
\* prediction, made from the features of its own interval set; what it
\* returns is, per instance, the sum of the n members' predictions over n,
\* each member counted once, whatever the order the tasks ended in; and a call
\* one of whose tasks failed returns no mean.
C1_MeanOfAllMembers ==
    /\ pc = "returned" =>
         /\ failed = {}
         /\ out.err = NoError
         /\ \A i \in Members :
              /\ y_pred[i].est = i
              /\ y_pred[i].ivl = intervals_[i]
              /\ Len(y_pred[i].val) = Len(X.inst)
         /\ Len(out.val) = Len(X.inst)
         /\ \A k \in 1 .. Len(X.inst) :
              /\ out.val[k].den = n_estimators
              /\ out.val[k].num =
                   SumTo([i \in Members |-> estimators_[i][X.inst[k]]], n_estimators)
    /\ failed # {} => pc # "returned" /\ out.val = <<>>

\* three constant trees 1, 2, 3 have answered a batch of two instances: the
\* mean is 6/3 for each
C1_Witness ==
    /\ pc = "returned"
    /\ n_estimators = 3
    /\ \A i \in 0 .. 2 : \A k \in InstKinds : estimators_[i][k] = i + 1
    /\ out.val = << [num |-> 6, den |-> 3], [num |-> 6, den |-> 3] >>

\* C2: member tasks are started only on a fitted estimator and a batch whose
\* series length is the one recorded at training; a call on an unfitted
\* estimator ends with NotFittedError whatever the batch, a call on a fitted
\* one with a batch of another length ends with ShapeError, and in both no
\* task has run and nothing is returned.
C2_ChecksBeforeTasks ==
    /\ [](pc \in {"running", "returned"} => is_fitted /\ X.len = series_length)
    /\ [](pc = "raised" /\ out.err \in {"NotFittedError", "ShapeError"} =>
             y_pred = <<>> /\ out.val = <<>>)
    /\ [][ (pc = "idle" /\ pc' # "idle") =>
             IF ~is_fitted
             THEN pc' = "raised" /\ out'.err = "NotFittedError" /\ y_pred' = <<>>
             ELSE IF X'.len # series_length
             THEN pc' = "raised" /\ out'.err = "ShapeError" /\ y_pred' = <<>>
             ELSE pc' = "running" /\ \A i \in Members : Pending(i)' ]_vars

C2_Witness ==
    /\ is_fitted
    /\ pc = "raised"
    /\ X.len # series_length
    /\ out.err = "ShapeError"

-----------------------------------------------------------------------------
(***************************************************************************)
(*                        BoxCoxTransformer: properties                    *)
(***************************************************************************)

FitFailed == last.op = "fit" /\ last.res.err # NoError
FitSucceeded == last.op = "fit" /\ last.res.err = NoError

\* C3: an instance starts Unfit, becomes Fit only by a fit that succeeds, and
\* inverse_transform on an instance not yet Fit ends with NotFittedError and
\* returns no series; only a Fit instance gets past that check.
C3_Lifecycle ==
    /\ ~t_fitted
    /\ [][ (~t_fitted /\ t_fitted') => FitSucceeded' ]_vars
    /\ [](last.op = "inverse_transform" /\ ~t_fitted =>
             last.res.err = "NotFittedError" /\ last.res.y = <<>>)
    /\ [](last.op = "inverse_transform" /\ last.res.err # "NotFittedError" =>
             t_fitted)

C3_Witness ==
    /\ last.op = "inverse_transform"
    /\ ~t_fitted
    /\ last.res.err = "NotFittedError"

C5_Original == [][ lambda_ # <<>> => lambda_' = lambda_ ]_vars

\* C5: lambda_ is undefined until a fit succeeds; only a fit that succeeds
\* changes it, to the lambda that fit found; transform, inverse_transform and
\* a fit that fails leave it as it is.
C5_OnlyFitSetsLambda ==
    /\ lambda_ = <<>>
    /\ [][ lambda_' # lambda_ => FitSucceeded' ]_vars
    /\ [](FitSucceeded => lambda_ = last.res.lam)

\* a fitted instance has inverted a series and still holds its lambda
C5_Witness ==
    /\ last.op = "inverse_transform"
    /\ last.res.err = NoError
    /\ Len(lambda_) = 1

-----------------------------------------------------------------------------
(***************************************************************************)
(*                   The module-level functions: properties                *)
(***************************************************************************)

Estimated == call.fn = "EstimateLambda" /\ call.done
Constant(v) == Len(v) > 0 /\ \A i \in 1 .. Len(v) : v[i] = v[1]
HasNonPositive(v) == \E i \in 1 .. Len(v) : ~(v[i] > 0)

\* what the rules of C6 give for array x and the scalar lambda l
RuleOutcome(x, l) ==
    IF x.ndim # 1 THEN "ShapeError"
    ELSE IF x.v = <<>> THEN "unchanged"
    ELSE IF Constant(x.v) THEN "DegenerateInputError"
    ELSE IF HasNonPositive(x.v) THEN "DomainError"
    ELSE "transformed"

FollowsRules(x, l, res) ==
    /\ RuleOutcome(x, l) \in {"ShapeError", "DegenerateInputError", "DomainError"} =>
          res.err = RuleOutcome(x, l) /\ res.y = <<>>
    /\ RuleOutcome(x, l) = "unchanged" => res.err = NoError /\ res.y = x.v
    /\ RuleOutcome(x, l) = "transformed" =>
          /\ res.err = NoError
          /\ Len(res.y) = Len(x.v)
          /\ \A i \in 1 .. Len(x.v) :
                res.y[i] = [f |-> "boxcox", x |-> x.v[i], lmbda |-> l]

\* C6: a transform with a given lambda, through _boxcox or through the forward
\* transform of a fitted transformer, takes the first rule that matches: not
\* 1-D is a ShapeError, empty is returned unchanged, all equal is a
\* DegenerateInputError, any element <= 0 is a DomainError, anything else is
\* transformed element by element.
C6_TransformRules ==
    (/\ call.done
     /\ call.fn \in {"_boxcox", "BoxCoxTransformer._transform"}
     /\ Len(call.lmbda) = 1)
    => FollowsRules(call.x, call.lmbda[1], call.res)

\* bounds absent, or a pair the bounded minimizer accepts
UsableBounds(b) ==
    \/ b = None
    \/ b.kind = "tuple" /\ Len(b.v) = 2 /\ b.v[1] <= b.v[2]

BadData(x) == x.ndim = 1 /\ (Constant(x.v) \/ HasNonPositive(x.v))

RefusedByTransform(x, res) ==
    /\ res.err = (IF Constant(x.v) THEN "DegenerateInputError" ELSE "DomainError")
    /\ res.by = "_boxcox"
    /\ res.lam = <<>>

\* C7: with pearsonr, mle or all, on a 1-D sequence that is constant or has a
\* non-positive element, the estimate ends with DegenerateInputError,
\* respectively DomainError, raised by the transform reached from the
\* objective, and no lambda comes back.
C7_NonGuerreroRefusesBadData ==
    (/\ Estimated
     /\ call.method \in {"pearsonr", "mle", "all"}
     /\ UsableBounds(call.bounds)
     /\ BadData(call.x))
    => RefusedByTransform(call.x, call.res)

ValidSp(s) == s.kind = "int" /\ s.v >= 2

\* C8: the estimate ends with InvalidParameter and no lambda when the method
\* is none of pearsonr, mle, all, guerrero, and when the method is guerrero
\* and sp is None, no integer or below 2; with guerrero that error is raised
\* by _guerrero itself before it has looked at the data or at the bounds.
C8_InvalidParameter ==
    Estimated =>
      /\ call.method \notin {"pearsonr", "mle", "all", "guerrero"} =>
            call.res.err = "InvalidParameter" /\ call.res.lam = <<>>
      /\ (call.method = "guerrero" /\ ~ValidSp(call.sp)) =>
            /\ call.res.err = "InvalidParameter"
            /\ call.res.by = "_guerrero"
            /\ call.res.lam = <<>>
            /\ call.res.mins = <<>>
            /\ call.res.aux = NoAux

\* sp = 1 is refused though the data are 2-D and the bounds malformed
C8_Witness ==
    /\ Estimated
    /\ call.method = "guerrero"
    /\ call.sp = [kind |-> "int", v |-> 1]
    /\ call.x.ndim = 2
    /\ call.bounds = Tuple(<<1, 2, 3>>)
    /\ call.res.err = "InvalidParameter"

ObjectivesOf(m) ==
    IF m = "all" THEN <<"pearsonr", "mle">> ELSE <<m>>

\* C9: for each method, on a 1-D sequence, the bounds alone choose the
\* minimizer: absent, every objective is minimized by the unconstrained
\* minimizer with bracket (-2, 2); a tuple of two values, by the bounded
\* minimizer on [bounds[0], bounds[1]]; anything else, the estimate ends with
\* InvalidParameter and no objective was evaluated.  The objectives minimized
\* are the method's own, in order.
C9_BoundsChooseOptimizer ==
    (Estimated /\ call.x.ndim = 1) =>
      LET b == call.bounds
          mins == call.res.mins
          reached == \/ call.method \in {"pearsonr", "mle", "all"}
                     \/ call.method = "guerrero" /\ ValidSp(call.sp)
          chosen == IF b = None
                    THEN [err |-> NoError, kind |-> "brent", a |-> -2, b |-> 2]
                    ELSE [err |-> NoError, kind |-> "fminbound",
                          a |-> b.v[1], b |-> b.v[2]]
      IN  IF b # None /\ ~(b.kind = "tuple" /\ Len(b.v) = 2)
          THEN call.res.err = "InvalidParameter" /\ mins = <<>>
          ELSE /\ reached <=> mins # <<>>
               /\ Len(mins) <= Len(ObjectivesOf(call.method))
               /\ \A i \in 1 .. Len(mins) :
                     /\ mins[i].opt = chosen
                     /\ mins[i].obj = ObjectivesOf(call.method)[i]
               /\ call.res.err = NoError => Len(mins) = Len(ObjectivesOf(call.method))

\* "all" with bounds (0, 3): both objectives went through the bounded minimizer
C9_Witness ==
    /\ Estimated
    /\ call.method = "all"
    /\ call.bounds = Tuple(<<0, 3>>)
    /\ call.res.err = NoError
    /\ Len(call.res.mins) = 2
    /\ call.res.mins[2].opt.kind = "fminbound"

\* C10: guerrero on a sequence of n elements with sp >= 2 drops exactly the
\* first n mod sp elements, keeps the other sp * (n div sp) in their order
\* and splits them into n div sp consecutive rows of sp elements, row j
\* holding the kept elements j*sp .. j*sp+sp-1; every kept element is in
\* exactly one row, and nothing is dropped when sp divides n.
C10_GuerreroBlocks ==
    (Estimated /\ call.method = "guerrero" /\ ValidSp(call.sp) /\ call.x.ndim = 1) =>
      LET v == call.x.v
          n == Len(v)
          p == call.sp.v
          k == n \div p
          a == call.res.aux
      IN  /\ a.len_prefix = n % p
          /\ Len(a.x_trimmed) = p * k
          /\ \A i \in 1 .. (p * k) : a.x_trimmed[i] = v[(n % p) + i]
          /\ (n % p = 0) => a.x_trimmed = v
          /\ Len(a.x_mat) = k
          /\ \A j \in 0 .. (k - 1) :
                /\ Len(a.x_mat[j + 1]) = p
                /\ \A c \in 0 .. (p - 1) :
                      a.x_mat[j + 1][c + 1] = a.x_trimmed[j * p + c + 1]
          /\ \A i \in 1 .. (p * k) :
                Cardinality({ jc \in (1 .. Len(a.x_mat)) \X (1 .. p) :
                                (jc[1] - 1) * p + jc[2] = i }) = 1

\* five elements 3, 5, 7, 9, 11 with sp = 2: the first is dropped
C10_Witness ==
    /\ Estimated
    /\ call.method = "guerrero"
    /\ call.sp = [kind |-> "int", v |-> 2]
    /\ call.x = Arr(Ramp(5))
    /\ call.res.aux.len_prefix = 1
    /\ call.res.aux.x_mat = << <<5, 7>>, <<9, 11>> >>

=============================================================================
